---- MODULE Spec2Model ----
(***************************************************************************)
(* Covenant Schedule Generator (src/schedule_generator.py).                *)
(*                                                                         *)
(* A date object (datetime.date) is its proleptic Gregorian ordinal, as    *)
(* date.toordinal() gives it; a date string 'YYYY-MM-DD' is the tuple      *)
(* <<y, m, d>>, so that strptime and strftime are real conversions.        *)
(* A dictionary field is a tagged value [t |-> "str", v |-> ...]; a value  *)
(* that is not a Python str carries another tag. An e-mail address is the  *)
(* tuple of its characters. Other strings are TLA+ strings.                *)
(***************************************************************************)
EXTENDS Integers, Sequences, FiniteSets, TLC

\* ------------------------------------------------------------------------
\* Calendar arithmetic (datetime.date, calendar, dateutil.relativedelta)
\* ------------------------------------------------------------------------

\* calendar.isleap
isleap(y) == (y % 4 = 0) /\ ((y % 100 # 0) \/ (y % 400 = 0))

\* calendar.monthrange(y, m)[1]
monthrange(y, m) ==
    IF m = 2 THEN (IF isleap(y) THEN 29 ELSE 28)
    ELSE IF m \in {4, 6, 9, 11} THEN 30 ELSE 31

\* days in the years before year y
DaysBeforeYear(y) ==
    365 * (y - 1) + ((y - 1) \div 4) - ((y - 1) \div 100) + ((y - 1) \div 400)

\* days of year y before month m
DaysBeforeMonth(y, m) ==
    <<0, 31, 59, 90, 120, 151, 181, 212, 243, 273, 304, 334>>[m]
        + (IF m > 2 /\ isleap(y) THEN 1 ELSE 0)

\* date(y, m, d).toordinal()
ToOrdinal(y, m, d) == DaysBeforeYear(y) + DaysBeforeMonth(y, m) + d

\* date.year of the date with ordinal n
Year(n) ==
    LET g == ((n * 400) \div 146097) + 1
    IN  IF n <= DaysBeforeYear(g) THEN g - 1
        ELSE IF n > DaysBeforeYear(g + 1) THEN g + 1
        ELSE g

\* the month in which day r of year y falls
MonthOfDay(y, r) ==
    LET g == ((r - 1) \div 31) + 1
    IN  IF g < 12 /\ r > DaysBeforeMonth(y, g + 1) THEN g + 1 ELSE g

\* date.month, date.day
Month(n) == MonthOfDay(Year(n), n - DaysBeforeYear(Year(n)))

Day(n) ==
    LET y == Year(n)
        r == n - DaysBeforeYear(y)
    IN  r - DaysBeforeMonth(y, MonthOfDay(y, r))

\* date.weekday(): Monday is 0, Sunday is 6
weekday(n) == (n + 6) % 7

\* date.strftime('%Y-%m-%d')
strftime(n) ==
    LET y == Year(n)
        r == n - DaysBeforeYear(y)
        m == MonthOfDay(y, r)
    IN  <<y, m, r - DaysBeforeMonth(y, m)>>

\* datetime.strptime(s, '%Y-%m-%d') succeeds
strptime_ok(s) ==
    /\ s[1] \in 1..9999
    /\ s[2] \in 1..12
    /\ s[3] >= 1
    /\ s[3] <= monthrange(s[1], s[2])

\* datetime.strptime(s, '%Y-%m-%d').date()
strptime(s) == ToOrdinal(s[1], s[2], s[3])

\* d + relativedelta(months=k): the month moves, the day is clamped
AddMonths(n, k) ==
    LET z  == Year(n) * 12 + (Month(n) - 1) + k
        y2 == z \div 12
        m2 == (z % 12) + 1
        mr == monthrange(y2, m2)
        d2 == IF Day(n) <= mr THEN Day(n) ELSE mr
    IN  ToOrdinal(y2, m2, d2)

\* d.replace(day=calendar.monthrange(d.year, d.month)[1])
ReplaceLastDay(n) == ToOrdinal(Year(n), Month(n), monthrange(Year(n), Month(n)))

\* ------------------------------------------------------------------------
\* Strings
\* ------------------------------------------------------------------------

Str(x) == [t |-> "str", v |-> x]
NotStr(x) == [t |-> "int", v |-> x]

\* str.lower(), on the frequency spellings the inputs use
Lower(s) ==
    CASE s = "Monthly" -> "monthly"
      [] s = "WEEKLY"  -> "weekly"
      [] s = "Daily"   -> "daily"
      [] OTHER         -> s

Digit(k) ==
    CASE k = 0 -> "0" [] k = 1 -> "1" [] k = 2 -> "2" [] k = 3 -> "3"
      [] k = 4 -> "4" [] k = 5 -> "5" [] k = 6 -> "6" [] k = 7 -> "7"
      [] k = 8 -> "8" [] k = 9 -> "9"

RECURSIVE Decimal(_)
Decimal(k) == IF k < 10 THEN Digit(k) ELSE Decimal(k \div 10) \o Digit(k % 10)

\* f"{idx:03d}"
Format03d(k) ==
    IF k < 10 THEN "00" \o Decimal(k)
    ELSE IF k < 100 THEN "0" \o Decimal(k)
    ELSE Decimal(k)

Letters ==
    {"a", "b", "c", "d", "e", "f", "g", "h", "i", "j", "k", "l", "m",
     "n", "o", "p", "q", "r", "s", "t", "u", "v", "w", "x", "y", "z",
     "A", "B", "C", "D", "E", "F", "G", "H", "I", "J", "K", "L", "M",
     "N", "O", "P", "Q", "R", "S", "T", "U", "V", "W", "X", "Y", "Z"}
Digits == {"0", "1", "2", "3", "4", "5", "6", "7", "8", "9"}
LocalChars == Letters \cup Digits \cup {".", "_", "%", "+", "-"}
DomainChars == Letters \cup Digits \cup {".", "-"}

\* re.match(r"^[A-Za-z0-9._%+-]+@[A-Za-z0-9.-]+\.[A-Za-z]{2,}$", e);
\* "$" also matches before one trailing newline
EmailMatch(e) ==
    LET n == IF Len(e) > 0 /\ e[Len(e)] = "\n" THEN Len(e) - 1 ELSE Len(e)
    IN  \E i \in 1..n : \E j \in 1..n :
            /\ e[i] = "@"
            /\ e[j] = "."
            /\ i >= 2
            /\ j >= i + 2
            /\ n - j >= 2
            /\ \A k \in 1..(i - 1) : e[k] \in LocalChars
            /\ \A k \in (i + 1)..(j - 1) : e[k] \in DomainChars
            /\ \A k \in (j + 1)..n : e[k] \in Letters

\* ------------------------------------------------------------------------
\* Validation
\* ------------------------------------------------------------------------

TransactionRequired == {"transaction_id", "name", "start_date", "end_date"}
CovenantRequired ==
    {"covenant_id", "transaction_id", "description", "frequency", "owner_email"}
allowed_frequencies == {"daily", "weekly", "monthly", "quarterly", "annually"}

\* _validate_transaction returns without raising ValueError
validate_transaction_ok(t) ==
    /\ \A key \in TransactionRequired : key \in DOMAIN t /\ t[key].t = "str"
    /\ strptime_ok(t["start_date"].v)
    /\ strptime_ok(t["end_date"].v)
    /\ strptime(t["start_date"].v) <= strptime(t["end_date"].v)

\* _validate_covenant returns without raising ValueError
validate_covenant_ok(c) ==
    /\ \A key \in CovenantRequired : key \in DOMAIN c /\ c[key].t = "str"
    /\ Lower(c["frequency"].v) \in allowed_frequencies
    /\ EmailMatch(c["owner_email"].v)

\* ------------------------------------------------------------------------
\* State
\* ------------------------------------------------------------------------

VARIABLES
    init_args,                \* arguments of ScheduleGenerator(...)
    provider,                 \* what holidays.country_holidays(country, years)
                              \* of the holidays package gives for init_args
    db_transactions,          \* rows of table transactions, in insertion order
    db_covenants,             \* rows of table covenants
    db_schedules,             \* rows of table schedules
    db_call,                  \* the Database method called last, with its arguments
    db_raised,                \* the exception that call raised, or "none"
    holidays,                 \* self.holidays: a set of date strings
    business_day_adjustment,  \* self.business_day_adjustment
    transaction,              \* argument of generate_schedules
    covenants,                \* argument of generate_schedules
    pc,                       \* "new" before __init__ ran; then where the call
                              \* is: "start", "loop", "weekly", "daily",
                              \* "periodic", "returned", "ValueError",
                              \* "RuntimeError"
    ci,                       \* position of `for cov in covenants`
    seen_covenant_ids,        \* local of generate_schedules
    schedules,                \* local of generate_schedules, the value returned
    months,                   \* argument of _generate_periodic_schedules
    period_start,             \* local of the weekly and periodic generators
    current,                  \* local of the daily generator
    idx,                      \* local of each generator
    sub,                      \* local `schedules` of the running generator
    history                   \* outcomes of the earlier calls on this generator

vars == <<init_args, provider, db_transactions, db_covenants, db_schedules,
          db_call, db_raised, holidays, business_day_adjustment, transaction,
          covenants, pc, ci, seen_covenant_ids, schedules, months,
          period_start, current, idx, sub, history>>

construction == <<init_args, provider>>
store == <<db_transactions, db_covenants, db_schedules>>
db == <<db_transactions, db_covenants, db_schedules, db_call, db_raised>>
config == <<holidays, business_day_adjustment>>
args == <<transaction, covenants>>
locals == <<months, period_start, current, idx, sub>>

\* ------------------------------------------------------------------------
\* Business-day utilities
\* ------------------------------------------------------------------------

\* the search bound of _adjust_to_business_day
MaxAttempts == 10

IsBusinessDayWeekdayOnly(d) == weekday(d) < 5

\* _is_business_day
_is_business_day(d) == weekday(d) < 5 /\ strftime(d) \notin holidays

RECURSIVE AdjustLoopEarlyRaise(_, _, _)
AdjustLoopEarlyRaise(d, step, attempts) ==
    IF _is_business_day(d) THEN [raised |-> FALSE, d |-> d]
    ELSE IF attempts + 1 >= MaxAttempts THEN [raised |-> TRUE, d |-> d + step]
    ELSE AdjustLoopEarlyRaise(d + step, step, attempts + 1)

\* the loop of _adjust_to_business_day after `attempts` steps
RECURSIVE AdjustLoop(_, _, _)
AdjustLoop(d, step, attempts) ==
    IF _is_business_day(d) THEN [raised |-> FALSE, d |-> d]
    ELSE IF attempts + 1 > MaxAttempts THEN [raised |-> TRUE, d |-> d + step]
    ELSE AdjustLoop(d + step, step, attempts + 1)

\* _adjust_to_business_day(d, forward): the date returned, or raised
_adjust_to_business_day(d, fwd) ==
    AdjustLoop(d, IF fwd THEN 1 ELSE -1, 0)

forward == business_day_adjustment = "forward"

\* ------------------------------------------------------------------------
\* __init__
\* ------------------------------------------------------------------------

\* the holidays argument: None (the default), or a list of date strings
None == [none |-> TRUE, v |-> {}]
Some(h) == [none |-> FALSE, v |-> h]

DEFAULT_HOLIDAYS == {}

\* `holidays.country_holidays(country, years=years)` as __init__ evaluates it.
\* Inside __init__ the name holidays is the parameter, and on this branch the
\* parameter is None: the attribute lookup raises AttributeError and the
\* imported package is never reached.
country_holidays == [raised |-> TRUE, dates |-> {}]

\* self.holidays as the `if holidays is not None ... else try ... except` sets it
HolidaysSet(a) ==
    IF ~a.holidays.none THEN a.holidays.v
    ELSE IF country_holidays.raised THEN DEFAULT_HOLIDAYS
         ELSE country_holidays.dates

\* __init__ runs to its end
Construct ==
    /\ pc = "new"
    /\ init_args.business_day_adjustment \in {"forward", "backward"}
    /\ holidays' = HolidaysSet(init_args)
    /\ business_day_adjustment' = init_args.business_day_adjustment
    /\ pc' = "start"
    /\ UNCHANGED <<construction, db, args, ci, seen_covenant_ids, schedules, locals, history>>

\* __init__ raises ValueError on the direction, after self.holidays is set
ConstructRaise ==
    /\ pc = "new"
    /\ init_args.business_day_adjustment \notin {"forward", "backward"}
    /\ holidays' = HolidaysSet(init_args)
    /\ pc' = "ValueError"
    /\ UNCHANGED <<construction, db, business_day_adjustment, args, ci,
                   seen_covenant_ids, schedules, locals, history>>

\* ------------------------------------------------------------------------
\* Entry construction
\* ------------------------------------------------------------------------

MakeEntryIndexOnly(covenant, i, due_date, p_start, p_end) ==
    [schedule_id  |-> "SCH-" \o Format03d(i),
     covenant_id  |-> covenant["covenant_id"].v,
     due_date     |-> strftime(due_date),
     status       |-> "pending",
     period_start |-> strftime(p_start),
     period_end   |-> strftime(p_end)]

MakeEntryCapitalStatus(covenant, i, due_date, p_start, p_end) ==
    [schedule_id  |-> "SCH-" \o covenant["covenant_id"].v \o "-" \o Format03d(i),
     covenant_id  |-> covenant["covenant_id"].v,
     due_date     |-> strftime(due_date),
     status       |-> "Pending",
     period_start |-> strftime(p_start),
     period_end   |-> strftime(p_end)]

\* _make_schedule_entry
_make_schedule_entry(covenant, i, due_date, p_start, p_end) ==
    [schedule_id  |-> "SCH-" \o covenant["covenant_id"].v \o "-" \o Format03d(i),
     covenant_id  |-> covenant["covenant_id"].v,
     due_date     |-> strftime(due_date),
     status       |-> "pending",
     period_start |-> strftime(p_start),
     period_end   |-> strftime(p_end)]

\* ------------------------------------------------------------------------
\* generate_schedules
\* ------------------------------------------------------------------------

start == strptime(transaction["start_date"].v)
end == strptime(transaction["end_date"].v)
cov == covenants[ci]
freq == Lower(cov["frequency"].v)
duration_days == end - start

\* a local that holds no date: the ordinal before date.min
NoDate == ToOrdinal(1, 1, 1) - 1
NoLocals ==
    /\ months' = 0
    /\ period_start' = NoDate
    /\ current' = NoDate
    /\ idx' = 0
    /\ sub' = <<>>

GatedMonthlyBelow27(f, duration) ==
    \/ f = "annually" /\ duration < 365
    \/ f = "quarterly" /\ duration < 90
    \/ f = "monthly" /\ duration < 27

\* the feasibility gate: the covenant is skipped
Gated(f, duration) ==
    \/ f = "annually" /\ duration < 365
    \/ f = "quarterly" /\ duration < 90
    \/ f = "monthly" /\ duration < 28

\* months argument the monthly / quarterly / annually wrappers pass
MonthsOf(f) ==
    CASE f = "monthly" -> 1 [] f = "quarterly" -> 3 [] f = "annually" -> 12

\* the covenant at the loop position passes every check of the loop body
CovenantAccepted ==
    /\ validate_covenant_ok(cov)
    /\ cov["transaction_id"].v = transaction["transaction_id"].v
    /\ cov["covenant_id"].v \notin seen_covenant_ids

StaleSeen == seen_covenant_ids

\* seen_covenant_ids = set()
NewSeen == {}

\* generate_schedules entered: the transaction is valid
BeginCall ==
    /\ pc = "start"
    /\ validate_transaction_ok(transaction)
    /\ pc' = "loop"
    /\ ci' = 1
    /\ seen_covenant_ids' = NewSeen
    /\ schedules' = <<>>
    /\ UNCHANGED <<construction, db, config, args, locals, history>>

\* generate_schedules entered: _validate_transaction raises
RejectTransaction ==
    /\ pc = "start"
    /\ ~validate_transaction_ok(transaction)
    /\ pc' = "ValueError"
    /\ UNCHANGED <<construction, db, config, args, ci, seen_covenant_ids, schedules, locals, history>>

\* loop body: validation, referential integrity or uniqueness raises
RejectCovenant ==
    /\ pc = "loop"
    /\ ci <= Len(covenants)
    /\ ~CovenantAccepted
    /\ pc' = "ValueError"
    /\ UNCHANGED <<construction, db, config, args, ci, seen_covenant_ids, schedules, locals, history>>

\* loop body: `continue` at the feasibility gate
SkipCovenant ==
    /\ pc = "loop"
    /\ ci <= Len(covenants)
    /\ CovenantAccepted
    /\ Gated(freq, duration_days)
    /\ seen_covenant_ids' = seen_covenant_ids \cup {cov["covenant_id"].v}
    /\ ci' = ci + 1
    /\ UNCHANGED <<construction, db, config, args, pc, schedules, locals, history>>

\* loop body: the frequency's generator is called
Dispatch ==
    /\ pc = "loop"
    /\ ci <= Len(covenants)
    /\ CovenantAccepted
    /\ ~Gated(freq, duration_days)
    /\ seen_covenant_ids' = seen_covenant_ids \cup {cov["covenant_id"].v}
    /\ pc' = IF freq \in {"weekly", "daily"} THEN freq ELSE "periodic"
    /\ months' = IF freq \in {"weekly", "daily"} THEN 0 ELSE MonthsOf(freq)
    /\ period_start' = IF freq = "daily" THEN NoDate ELSE start
    /\ current' = IF freq = "daily" THEN start ELSE NoDate
    /\ idx' = 1
    /\ sub' = <<>>
    /\ UNCHANGED <<construction, db, config, args, ci, schedules, history>>

\* the running generator returns `result`: schedules.extend(...), next covenant
GeneratorReturns(result) ==
    /\ schedules' = schedules \o result
    /\ pc' = "loop"
    /\ ci' = ci + 1
    /\ NoLocals

\* the running generator raises RuntimeError, which generate_schedules lets through
GeneratorRaises ==
    /\ pc' = "RuntimeError"
    /\ UNCHANGED <<ci, schedules, locals>>

\* `return schedules`
Return ==
    /\ pc = "loop"
    /\ ci > Len(covenants)
    /\ pc' = "returned"
    /\ UNCHANGED <<construction, db, config, args, ci, seen_covenant_ids, schedules, locals, history>>

AdjustNever(d) == [raised |-> FALSE, d |-> d]

\* `if not self._is_business_day(d): d = self._adjust_to_business_day(d, ...)`
AdjustIfNeeded(d) ==
    IF ~_is_business_day(d) THEN _adjust_to_business_day(d, forward)
    ELSE [raised |-> FALSE, d |-> d]

\* ------------------------------------------------------------------------
\* _generate_weekly_schedules, one iteration of its loop
\* ------------------------------------------------------------------------

WeeklyDue == AdjustIfNeeded(period_start + 7)

WeeklyPastEndExclusive(d) == d >= end

\* `if due_date > end: break`
WeeklyPastEnd(d) == d > end

\* the loop condition fails, or `break`: the generator returns
WeeklyStop ==
    /\ pc = "weekly"
    /\ \/ ~(period_start < end)
       \/ period_start < end /\ ~WeeklyDue.raised /\ WeeklyPastEnd(WeeklyDue.d)
    /\ GeneratorReturns(sub)
    /\ UNCHANGED <<construction, db, config, args, seen_covenant_ids, history>>

WeeklyRaise ==
    /\ pc = "weekly"
    /\ period_start < end
    /\ WeeklyDue.raised
    /\ GeneratorRaises
    /\ UNCHANGED <<construction, db, config, args, seen_covenant_ids, history>>

WeeklyEmitSixDays ==
    /\ pc = "weekly"
    /\ period_start < end
    /\ ~WeeklyDue.raised
    /\ ~WeeklyPastEnd(WeeklyDue.d)
    /\ \E due_date \in {WeeklyDue.d} :
          sub' = Append(sub, _make_schedule_entry(cov, idx, due_date,
                                                  period_start, period_start + 6))
    /\ period_start' = period_start + 6
    /\ idx' = idx + 1
    /\ UNCHANGED <<construction, db, config, args, pc, ci, seen_covenant_ids, schedules, months,
                   current, history>>

\* an entry is appended and the next week begins
WeeklyEmit ==
    /\ pc = "weekly"
    /\ period_start < end
    /\ ~WeeklyDue.raised
    /\ ~WeeklyPastEnd(WeeklyDue.d)
    /\ \E due_date \in {WeeklyDue.d} :
          sub' = Append(sub, _make_schedule_entry(cov, idx, due_date,
                                                  period_start, period_start + 6))
    /\ period_start' = period_start + 7
    /\ idx' = idx + 1
    /\ UNCHANGED <<construction, db, config, args, pc, ci, seen_covenant_ids, schedules, months,
                   current, history>>

\* ------------------------------------------------------------------------
\* _generate_daily_schedules, one iteration of its loop
\* ------------------------------------------------------------------------

DailyDue == _adjust_to_business_day(current + 1, forward)

DailyPastEndExclusive(d) == d >= end

\* `if due_date > end: break`
DailyPastEnd(d) == d > end

DailyStop ==
    /\ pc = "daily"
    /\ \/ ~(current < end)
       \/ current < end /\ _is_business_day(current)
          /\ ~DailyDue.raised /\ DailyPastEnd(DailyDue.d)
    /\ GeneratorReturns(sub)
    /\ UNCHANGED <<construction, db, config, args, seen_covenant_ids, history>>

DailyRaise ==
    /\ pc = "daily"
    /\ current < end
    /\ _is_business_day(current)
    /\ DailyDue.raised
    /\ GeneratorRaises
    /\ UNCHANGED <<construction, db, config, args, seen_covenant_ids, history>>

DailySkipNoAdvance ==
    /\ pc = "daily"
    /\ current < end
    /\ ~_is_business_day(current)
    /\ UNCHANGED vars

\* a day that is no business day: only `current += timedelta(days=1)`
DailySkip ==
    /\ pc = "daily"
    /\ current < end
    /\ ~_is_business_day(current)
    /\ current' = current + 1
    /\ UNCHANGED <<construction, db, config, args, pc, ci, seen_covenant_ids, schedules, months,
                   period_start, idx, sub, history>>

DailyEmit ==
    /\ pc = "daily"
    /\ current < end
    /\ _is_business_day(current)
    /\ ~DailyDue.raised
    /\ ~DailyPastEnd(DailyDue.d)
    /\ \E due_date \in {DailyDue.d} :
          sub' = Append(sub, _make_schedule_entry(cov, idx, due_date, current, current))
    /\ idx' = idx + 1
    /\ current' = current + 1
    /\ UNCHANGED <<construction, db, config, args, pc, ci, seen_covenant_ids, schedules, months,
                   period_start, history>>

\* ------------------------------------------------------------------------
\* _generate_periodic_schedules, one iteration of its `while True`
\* ------------------------------------------------------------------------

orig_day == Day(start)
is_month_end == monthrange(Year(start), Month(start)) = Day(start)
NextPeriodStartSame == period_start

\* next_period_start = period_start + relativedelta(months=months)
next_period_start == AddMonths(period_start, months)
period_end == next_period_start - 1

PolicyDueKeepsDay == next_period_start

\* the day-of-month policy, before the annual leap override
PolicyDue ==
    IF is_month_end THEN ReplaceLastDay(next_period_start)
    ELSE IF orig_day <= monthrange(Year(next_period_start), Month(next_period_start))
         THEN ToOrdinal(Year(next_period_start), Month(next_period_start), orig_day)
         ELSE ReplaceLastDay(next_period_start)

RawDueFromStart == AddMonths(start, months)

\* due_date as computed before the cutoff
RawDue ==
    IF months = 12 /\ Month(start) = 2 /\ Day(start) = 29
    THEN IF isleap(Year(next_period_start))
         THEN ToOrdinal(Year(next_period_start), 2, 29)
         ELSE ToOrdinal(Year(next_period_start), 2, 28)
    ELSE PolicyDue

FebCaseNever == FALSE

\* the quarterly month-end special case applies in this iteration
FebCase == months = 3 /\ is_month_end /\ Month(next_period_start) = 3

FebDue ==
    AdjustIfNeeded(ToOrdinal(Year(next_period_start), 2,
                             monthrange(Year(next_period_start), 2)))

\* the extra February entry is appended in this iteration
FebEmitted == FebCase /\ ~FebDue.raised /\ FebDue.d <= end

\* schedules after the quarterly block
SubAfterFeb ==
    IF FebEmitted
    THEN Append(sub, _make_schedule_entry(cov, idx, FebDue.d, period_start, FebDue.d))
    ELSE sub

IdxAfterFebUnchanged == idx

\* idx after the quarterly block
IdxAfterFeb == IF FebEmitted THEN idx + 1 ELSE idx

PeriodicDue == AdjustIfNeeded(RawDue)

PeriodicPastEndLate(d) == d > end + 3

PeriodicPastEndExclusive(d) == d >= end

\* `if due_date > end: break`, before the adjustment
PeriodicPastEnd(d) == d > end

\* `if due_date > end: break`
PeriodicStop ==
    /\ pc = "periodic"
    /\ ~(FebCase /\ FebDue.raised)
    /\ PeriodicPastEnd(RawDue)
    /\ GeneratorReturns(SubAfterFeb)
    /\ UNCHANGED <<construction, db, config, args, seen_covenant_ids, history>>

PeriodicRaise ==
    /\ pc = "periodic"
    /\ \/ FebCase /\ FebDue.raised
       \/ ~(FebCase /\ FebDue.raised) /\ ~PeriodicPastEnd(RawDue) /\ PeriodicDue.raised
    /\ GeneratorRaises
    /\ UNCHANGED <<construction, db, config, args, seen_covenant_ids, history>>

PeriodicEmit ==
    /\ pc = "periodic"
    /\ ~(FebCase /\ FebDue.raised)
    /\ ~PeriodicPastEnd(RawDue)
    /\ ~PeriodicDue.raised
    /\ sub' = Append(SubAfterFeb,
                     _make_schedule_entry(cov, IdxAfterFeb, PeriodicDue.d,
                                          period_start, period_end))
    /\ period_start' = next_period_start
    /\ idx' = IdxAfterFeb + 1
    /\ UNCHANGED <<construction, db, config, args, pc, ci, seen_covenant_ids, schedules, months,
                   current, history>>

\* ------------------------------------------------------------------------
\* Database (src/database.py)
\* ------------------------------------------------------------------------

\* calls made on one Database
MaxDbCalls == 4

\* the values of column k over the rows of a table
Column(table, k) == {table[i][k] : i \in 1..Len(table)}

\* `key in dict`
Has(dict, k) == k \in DOMAIN dict

\* the method call recorded in db_call: its name, its arguments, its number
Call(op, a, b) == [op |-> op, a |-> a, b |-> b, n |-> db_call.n + 1]

\* the row the INSERT of save_transaction writes
TransactionRow(t) ==
    [transaction_id |-> t["transaction_id"].v,
     name           |-> IF Has(t, "name") THEN t["name"].v ELSE "",
     start_date     |-> t["start_date"].v,
     end_date       |-> t["end_date"].v]

\* what save_transaction(t) raises
save_transaction_raises(t) ==
    IF t["transaction_id"].v \in Column(db_transactions, "transaction_id")
    THEN "ValueError" ELSE "none"

\* save_transaction
save_transaction(t) ==
    /\ db_call' = Call("save_transaction", t, None)
    /\ db_raised' = save_transaction_raises(t)
    /\ db_transactions' =
          IF save_transaction_raises(t) = "none"
          THEN Append(db_transactions, TransactionRow(t)) ELSE db_transactions
    /\ UNCHANGED <<db_covenants, db_schedules>>

\* the row the INSERT of save_covenants writes
CovenantRow(c) ==
    [covenant_id    |-> c["covenant_id"].v,
     transaction_id |-> c["transaction_id"].v,
     description    |-> c["description"].v,
     frequency      |-> c["frequency"].v,
     owner_email    |-> c["owner_email"].v]

\* the loop of save_covenants lets covenant c pass
CovenantCheck(c) ==
    /\ c["transaction_id"].v \in Column(db_transactions, "transaction_id")
    /\ c["covenant_id"].v \notin Column(db_covenants, "covenant_id")

CovenantInsertNeverFails(cs) == FALSE

\* executemany INSERT INTO covenants fails on a constraint of the schema, and
\* `with self.conn` rolls the rows already inserted back: a covenant_id that
\* occurs twice among the rows or is stored (PRIMARY KEY), a transaction_id
\* that is not stored (FOREIGN KEY, PRAGMA foreign_keys = ON)
CovenantInsertFails(cs) ==
    \/ \E i \in 1..Len(cs) : \E j \in 1..Len(cs) :
          i < j /\ cs[i]["covenant_id"].v = cs[j]["covenant_id"].v
    \/ \E i \in 1..Len(cs) :
          \/ cs[i]["covenant_id"].v \in Column(db_covenants, "covenant_id")
          \/ cs[i]["transaction_id"].v \notin Column(db_transactions, "transaction_id")

\* what save_covenants(cs) raises
save_covenants_raises(cs) ==
    IF \E i \in 1..Len(cs) : ~CovenantCheck(cs[i]) THEN "ValueError"
    ELSE IF CovenantInsertFails(cs) THEN "IntegrityError"
    ELSE "none"

\* save_covenants
save_covenants(cs) ==
    /\ db_call' = Call("save_covenants", cs, None)
    /\ db_raised' = save_covenants_raises(cs)
    /\ db_covenants' =
          IF save_covenants_raises(cs) = "none"
          THEN db_covenants \o [i \in 1..Len(cs) |-> CovenantRow(cs[i])]
          ELSE db_covenants
    /\ UNCHANGED <<db_transactions, db_schedules>>

allowed_status == {"pending", "completed", "overdue", "cancelled"}

\* `set(holidays) if holidays else set()`
holiday_set(h) == IF h.none THEN {} ELSE h.v

ScheduleCheckNoStatus(ss, i, hset) ==
    LET s == ss[i]
    IN  IF s.schedule_id \in {ss[j].schedule_id : j \in 1..(i - 1)} THEN "ValueError"
        ELSE IF s.schedule_id \in Column(db_schedules, "schedule_id") THEN "ValueError"
        ELSE IF s.covenant_id \notin Column(db_covenants, "covenant_id")
        THEN "ValueError"
        ELSE IF ~Has(s, "due_date") THEN "KeyError"
        ELSE IF s.due_date \in hset THEN "ValueError"
        ELSE IF ~strptime_ok(s.due_date) THEN "ValueError"
        ELSE IF weekday(strptime(s.due_date)) >= 5 THEN "ValueError"
        ELSE "none"

\* what the loop body of save_schedules raises on entry i, the entries
\* before it having passed
ScheduleCheck(ss, i, hset) ==
    LET s == ss[i]
    IN  IF s.schedule_id \in {ss[j].schedule_id : j \in 1..(i - 1)} THEN "ValueError"
        ELSE IF s.schedule_id \in Column(db_schedules, "schedule_id") THEN "ValueError"
        ELSE IF s.covenant_id \notin Column(db_covenants, "covenant_id")
        THEN "ValueError"
        ELSE IF s.status \notin allowed_status THEN "ValueError"
        ELSE IF ~Has(s, "due_date") THEN "KeyError"
        ELSE IF s.due_date \in hset THEN "ValueError"
        ELSE IF ~strptime_ok(s.due_date) THEN "ValueError"
        ELSE IF weekday(strptime(s.due_date)) >= 5 THEN "ValueError"
        ELSE "none"

\* what the executemany INSERT INTO schedules raises: KeyError while the
\* rows are built from an entry without period_start or period_end, else
\* IntegrityError on a constraint of the schema (schedule_id PRIMARY KEY,
\* covenant_id FOREIGN KEY), the rows already inserted being rolled back
schedules_insert_raises(ss) ==
    IF \E i \in 1..Len(ss) : ~Has(ss[i], "period_start") \/ ~Has(ss[i], "period_end")
    THEN "KeyError"
    ELSE IF \/ \E i \in 1..Len(ss) : \E j \in 1..Len(ss) :
                 i < j /\ ss[i].schedule_id = ss[j].schedule_id
            \/ \E i \in 1..Len(ss) :
                 \/ ss[i].schedule_id \in Column(db_schedules, "schedule_id")
                 \/ ss[i].covenant_id \notin Column(db_covenants, "covenant_id")
    THEN "IntegrityError"
    ELSE "none"

\* what save_schedules(ss, h) raises: the first entry that fails decides
save_schedules_raises(ss, h) ==
    LET bad == {i \in 1..Len(ss) : ScheduleCheck(ss, i, holiday_set(h)) # "none"}
    IN  IF bad = {} THEN schedules_insert_raises(ss)
        ELSE ScheduleCheck(ss, CHOOSE i \in bad : \A j \in bad : i <= j,
                           holiday_set(h))

\* the row the INSERT of save_schedules writes; created_at and updated_at
\* take the time of the statement, kept as the statement that stamped them
ScheduleRow(s) ==
    [schedule_id  |-> s.schedule_id,
     covenant_id  |-> s.covenant_id,
     due_date     |-> s.due_date,
     status       |-> s.status,
     period_start |-> s.period_start,
     period_end   |-> s.period_end,
     created_at   |-> "INSERT",
     updated_at   |-> "INSERT"]

\* save_schedules
save_schedules(ss, h) ==
    /\ db_call' = Call("save_schedules", ss, h)
    /\ db_raised' = save_schedules_raises(ss, h)
    /\ db_schedules' =
          IF save_schedules_raises(ss, h) = "none"
          THEN db_schedules \o [i \in 1..Len(ss) |-> ScheduleRow(ss[i])]
          ELSE db_schedules
    /\ UNCHANGED <<db_transactions, db_covenants>>

\* get_schedules over the rows of table schedules; covenant_id None or ''
\* does not filter
get_schedules(table, covenant_id) ==
    IF covenant_id.none \/ covenant_id.v = "" THEN table
    ELSE SelectSeq(table, LAMBDA row : row.covenant_id = covenant_id.v)

UpdatedRowsAll(schedule_id, status) ==
    [i \in 1..Len(db_schedules) |->
        [db_schedules[i] EXCEPT !.status = status, !.updated_at = "UPDATE"]]

\* table schedules after the UPDATE of update_schedule_status
UpdatedRows(schedule_id, status) ==
    [i \in 1..Len(db_schedules) |->
        IF db_schedules[i].schedule_id = schedule_id
        THEN [db_schedules[i] EXCEPT !.status = status, !.updated_at = "UPDATE"]
        ELSE db_schedules[i]]

\* update_schedule_status: no check of the status, nothing raised
update_schedule_status(schedule_id, status) ==
    /\ db_call' = Call("update_schedule_status", schedule_id, status)
    /\ db_raised' = "none"
    /\ db_schedules' = UpdatedRows(schedule_id, status)
    /\ UNCHANGED <<db_transactions, db_covenants>>

\* delete_schedule
delete_schedule(schedule_id) ==
    /\ db_call' = Call("delete_schedule", schedule_id, None)
    /\ db_raised' = "none"
    /\ db_schedules' =
          SelectSeq(db_schedules, LAMBDA row : row.schedule_id # schedule_id)
    /\ UNCHANGED <<db_transactions, db_covenants>>

\* everything of the generator, which the Database does not touch
generator == <<construction, config, args, pc, ci, seen_covenant_ids, schedules,
               locals, history>>

\* populate_db.py after generate_schedules returned: the transaction, the
\* covenants and the returned list are saved
StoreTransaction ==
    /\ pc = "returned"
    /\ db_call.n < MaxDbCalls
    /\ save_transaction(transaction)
    /\ UNCHANGED generator

StoreCovenants ==
    /\ pc = "returned"
    /\ db_call.n < MaxDbCalls
    /\ save_covenants(covenants)
    /\ UNCHANGED generator

\* save_schedules(schedules), or with holidays=the generator's holiday set
StoreSchedules ==
    /\ pc = "returned"
    /\ db_call.n < MaxDbCalls
    /\ \E h \in {None, Some(holidays)} : save_schedules(schedules, h)
    /\ UNCHANGED generator

\* ------------------------------------------------------------------------
\* Inputs
\* ------------------------------------------------------------------------

\* longest covenant list passed to one call
MaxBatch == 2
\* calls made on one generator
MaxCalls == 2

D(y, m, d) == ToOrdinal(y, m, d)

\* make_transaction of the test suite
make_transaction(s, e) ==
    [transaction_id |-> Str("TXN-TEST"), name |-> Str("Test Transaction"),
     start_date |-> Str(s), end_date |-> Str(e)]

GoodEmail == <<"t", "e", "s", "t", "@", "c", "o", ".", "i", "n">>

\* make_covenant of the test suite
make_covenant(f, cid) ==
    [covenant_id |-> Str(cid), transaction_id |-> Str("TXN-TEST"),
     description |-> Str("Covenant"), frequency |-> Str(f),
     owner_email |-> Str(GoodEmail)]

\* the dates a..b as holiday strings
Range(a, b) == {strftime(n) : n \in a..b}

SeqsUpTo(P, n) == UNION {[1..k -> P] : k \in 0..n}

Input(t, h, a, c) == [tx |-> t, hol |-> h, adj |-> a, covs |-> c]

Directions == {"forward", "backward"}

\* one valid covenant per frequency; "C1" and "C1-001" share a prefix
ValidCovenants ==
    {make_covenant("daily", "C1"), make_covenant("WEEKLY", "C1-001"),
     make_covenant("Monthly", "C2"), make_covenant("quarterly", "C3"),
     make_covenant("annually", "C4")}

\* covenants the loop body rejects
InvalidCovenants ==
    {make_covenant("fortnightly", "C5"),
     [make_covenant("monthly", "C6") EXCEPT !["owner_email"] = Str(<<"a", "@", "b">>)],
     [make_covenant("monthly", "C7") EXCEPT !["transaction_id"] = Str("TXN-OTHER")],
     [make_covenant("weekly", "C8") EXCEPT !["covenant_id"] = NotStr("123")],
     [k \in CovenantRequired \ {"description"} |-> make_covenant("daily", "C9")[k]]}

\* the inputs over the transactions txs (pairs of dates), the holiday sets
\* H gives for each, both directions and the covenant lists over pool
Family(txs, H(_, _), pool, maxlen) ==
    UNION {{Input(make_transaction(strftime(t[1]), strftime(t[2])), h, a, c) :
                h \in H(t[1], t[2]), a \in Directions, c \in SeqsUpTo(pool, maxlen)} :
           t \in txs}

\* short transactions, every frequency, holiday runs around the start
ShortTransactions ==
    {<<s, s + n>> : s \in {D(2025, 1, 7), D(2025, 1, 31), D(2025, 2, 1)},
                    n \in {0, 1, 8, 27, 28, 31}}
ShortHolidays(s, e) == {{}, Range(s, s + 7), Range(s, e), Range(s + 1, s + 12)}
ShortInputs == Family(ShortTransactions, ShortHolidays, ValidCovenants, 1)

\* long transactions, the periodic frequencies, holidays around the end
PeriodicCovenants ==
    {make_covenant("Monthly", "C2"), make_covenant("quarterly", "C3"),
     make_covenant("annually", "C4")}
LongTransactions ==
    {<<s, s + n>> : s \in {D(2024, 2, 29), D(2024, 12, 31), D(2025, 3, 31)},
                    n \in {89, 90, 364, 365, 366}}
LongHolidays(s, e) == {{}, Range(e, e + 11), Range(e - 12, e)}
LongInputs == Family(LongTransactions, LongHolidays, PeriodicCovenants, 1)

\* the scenarios of the test suites: one covenant, no holiday
Scenario(s, e, f) ==
    Input(make_transaction(s, e), {}, "forward", <<make_covenant(f, "COV-TEST")>>)
ScenarioInputs ==
    {Scenario(<<2025, 1, 15>>, <<2027, 1, 15>>, "monthly"),
     Scenario(<<2025, 3, 31>>, <<2026, 3, 31>>, "quarterly"),
     Scenario(<<2024, 2, 29>>, <<2028, 2, 28>>, "annually"),
     Scenario(<<2025, 1, 31>>, <<2025, 6, 30>>, "monthly"),
     Scenario(<<2025, 1, 30>>, <<2025, 6, 30>>, "monthly"),
     Scenario(<<2023, 2, 28>>, <<2025, 3, 1>>, "annually"),
     Scenario(<<2025, 2, 1>>, <<2025, 5, 1>>, "quarterly"),
     Scenario(<<2025, 1, 1>>, <<2025, 3, 1>>, "monthly"),
     Scenario(<<2025, 1, 1>>, <<2025, 3, 1>>, "weekly"),
     Scenario(<<2025, 1, 1>>, <<2025, 1, 10>>, "daily")}

\* covenant lists with rejected covenants at every position
BatchTransactions == {<<D(2025, 1, 31), D(2025, 1, 31) + 31>>}
BatchHolidays(s, e) == {{}, Range(s + 1, s + 12)}
BatchInputs ==
    Family(BatchTransactions, BatchHolidays,
           ValidCovenants \cup InvalidCovenants, MaxBatch)

\* transactions _validate_transaction rejects
InvalidTransactions ==
    {make_transaction(<<2025, 2, 1>>, <<2025, 1, 31>>),
     make_transaction(<<2025, 2, 30>>, <<2025, 3, 1>>),
     [make_transaction(<<2025, 1, 1>>, <<2025, 3, 1>>)
         EXCEPT !["name"] = NotStr("123")],
     [k \in TransactionRequired \ {"name"} |->
         make_transaction(<<2025, 1, 1>>, <<2025, 3, 1>>)[k]]}
InvalidTransactionInputs ==
    {Input(t, {}, "forward", <<make_covenant("monthly", "COV-TEST")>>) :
        t \in InvalidTransactions}

\* every day of the transaction is a holiday: a month, and a leap year
AllHolidayTransactions ==
    {<<D(2025, 1, 1), D(2025, 1, 31)>>, <<D(2024, 1, 1), D(2025, 1, 1)>>}
AllHolidayInputs ==
    {Input(make_transaction(strftime(t[1]), strftime(t[2])), Range(t[1], t[2]), a,
           <<make_covenant("daily", "COV-TEST")>>) :
        t \in AllHolidayTransactions, a \in Directions}

\* a weekly covenant whose second period would start on the end date, the
\* week after the end being holidays
WeeklyGuardInputs ==
    {Input(make_transaction(<<2025, 1, 7>>, <<2025, 1, 14>>),
           Range(D(2025, 1, 15), D(2025, 1, 21)), a,
           <<make_covenant("weekly", "COV-TEST")>>) : a \in Directions}

\* a weekly covenant with two consecutive due dates in one run of holidays
WeeklyHolidayRunInputs ==
    {Input(make_transaction(<<2025, 1, 7>>, <<2025, 1, 31>>),
           Range(D(2025, 1, 14), D(2025, 1, 21)), a,
           <<make_covenant("weekly", "COV-TEST")>>) : a \in Directions}

Inputs ==
    ShortInputs \cup LongInputs \cup ScenarioInputs \cup BatchInputs
        \cup InvalidTransactionInputs \cup AllHolidayInputs
        \cup WeeklyGuardInputs \cup WeeklyHolidayRunInputs

\* ------------------------------------------------------------------------
\* Specification
\* ------------------------------------------------------------------------

\* the arguments that construct the generator of the input inp
ExplicitArgs(inp) == [holidays |-> Some(inp.hol), business_day_adjustment |-> inp.adj]
DefaultArgs(a) == [holidays |-> None, business_day_adjustment |-> a]

\* a provider that is not consulted
NoProvider == [raised |-> TRUE, dates |-> {}]

NoCall == [op |-> "none", n |-> 0]

\* Database(':memory:') entered: the schema is created, every table is empty
EmptyStore ==
    /\ db_transactions = <<>>
    /\ db_covenants = <<>>
    /\ db_schedules = <<>>
    /\ db_call = NoCall
    /\ db_raised = "none"

\* a generator is constructed and generate_schedules is about to be called
InitWith(inp) ==
    /\ init_args = ExplicitArgs(inp)
    /\ provider = NoProvider
    /\ EmptyStore
    /\ holidays = inp.hol
    /\ business_day_adjustment = inp.adj
    /\ transaction = inp.tx
    /\ covenants = inp.covs
    /\ pc = "start"
    /\ ci = 0
    /\ seen_covenant_ids = {}
    /\ schedules = <<>>
    /\ months = 0
    /\ period_start = NoDate
    /\ current = NoDate
    /\ idx = 0
    /\ sub = <<>>
    /\ history = <<>>

Init == \E inp \in Inputs : InitWith(inp)

Done == pc \in {"returned", "ValueError", "RuntimeError"}

\* the call's outcome: what it raised, or the list it returned
Outcome == [pc |-> pc, schedules |-> IF pc = "returned" THEN schedules ELSE <<>>]

\* generate_schedules is called again with the same arguments
Recall ==
    /\ Done
    /\ Len(history) + 1 < MaxCalls
    /\ history' = Append(history, Outcome)
    /\ pc' = "start"
    /\ UNCHANGED <<construction, db, config, args, ci, seen_covenant_ids, schedules, locals>>

Next ==
    \/ BeginCall
    \/ RejectTransaction
    \/ RejectCovenant
    \/ SkipCovenant
    \/ Dispatch
    \/ Return
    \/ WeeklyStop
    \/ WeeklyRaise
    \/ WeeklyEmit
    \/ DailyStop
    \/ DailyRaise
    \/ DailySkip
    \/ DailyEmit
    \/ PeriodicStop
    \/ PeriodicRaise
    \/ PeriodicEmit

Spec == Init /\ [][Next]_vars

\* the same generator called MaxCalls times with the same arguments
NextRepeat == Next \/ Recall
SpecRepeat == Init /\ [][NextRepeat]_vars

\* the caller has chosen the constructor's arguments a, the provider would
\* answer p, and the arguments of the later call are t and c
NewWith(a, p, t, c) ==
    /\ init_args = a
    /\ provider = p
    /\ EmptyStore
    /\ holidays = {}
    /\ business_day_adjustment = ""
    /\ transaction = t
    /\ covenants = c
    /\ pc = "new"
    /\ ci = 0
    /\ seen_covenant_ids = {}
    /\ schedules = <<>>
    /\ months = 0
    /\ period_start = NoDate
    /\ current = NoDate
    /\ idx = 0
    /\ sub = <<>>
    /\ history = <<>>

\* what the holidays package may answer for a transaction starting at s:
\* a failure, no holiday, three holidays in the first days of the range
Providers(s) ==
    {[raised |-> TRUE, dates |-> {}], [raised |-> FALSE, dates |-> {}],
     [raised |-> FALSE, dates |-> Range(strptime(s) + 1, strptime(s) + 3)]}

\* construction from an explicit holiday list, from the provider (the
\* scenarios of the test suites), and with a direction __init__ rejects
InitSystem ==
    \/ \E inp \in Inputs :
          NewWith(ExplicitArgs(inp), NoProvider, inp.tx, inp.covs)
    \/ \E inp \in ScenarioInputs : \E a \in Directions :
          \E p \in Providers(inp.tx["start_date"].v) :
             NewWith(DefaultArgs(a), p, inp.tx, inp.covs)
    \/ \E inp \in ScenarioInputs : \E h \in {None, Some({})} :
          NewWith([holidays |-> h, business_day_adjustment |-> "sideways"],
                  NoProvider, inp.tx, inp.covs)

\* the program as populate_db.py runs it: construct, generate, store
NextSystem ==
    \/ Construct
    \/ ConstructRaise
    \/ Next
    \/ StoreTransaction
    \/ StoreCovenants
    \/ StoreSchedules
SpecSystem == InitSystem /\ [][NextSystem]_vars

\* the Database on its own: every method, arguments from small pools
DbTransaction == make_transaction(<<2025, 1, 1>>, <<2025, 4, 1>>)
DbTransactions ==
    {DbTransaction, [DbTransaction EXCEPT !["transaction_id"] = Str("TXN-OTHER")]}
DbCovenants ==
    {make_covenant("monthly", "COV-001"), make_covenant("quarterly", "COV-002"),
     [make_covenant("monthly", "COV-003") EXCEPT !["transaction_id"] = Str("TXN-OTHER")]}
DbHoliday == <<2025, 2, 4>>

\* an entry as the generator makes it, for the period January 2025
Entry(cid, i, due) ==
    _make_schedule_entry(make_covenant("monthly", cid), i, due,
                         D(2025, 1, 1), D(2025, 1, 31))

\* two entries save_schedules accepts, and one for each of its checks: a
\* status outside the allowed ones, a Saturday, a Sunday, a holiday, a
\* covenant that is not stored, no due_date
DbEntries ==
    {Entry("COV-001", 1, D(2025, 2, 3)), Entry("COV-002", 1, D(2025, 4, 1)),
     [Entry("COV-001", 3, D(2025, 2, 3)) EXCEPT !.status = "done"],
     Entry("COV-001", 4, D(2025, 2, 1)),
     Entry("COV-001", 5, D(2025, 2, 2)),
     Entry("COV-001", 6, strptime(DbHoliday)),
     Entry("COV-009", 1, D(2025, 2, 3)),
     [k \in DOMAIN Entry("COV-001", 7, D(2025, 2, 3)) \ {"due_date"} |->
         Entry("COV-001", 7, D(2025, 2, 3))[k]]}
DbScheduleIds == {e.schedule_id : e \in DbEntries}
DbStatuses == {"completed", "archived"}

SaveTransaction ==
    /\ db_call.n < MaxDbCalls
    /\ \E t \in DbTransactions : save_transaction(t)
    /\ UNCHANGED generator

SaveCovenants ==
    /\ db_call.n < MaxDbCalls
    /\ \E cs \in SeqsUpTo(DbCovenants, MaxBatch) : save_covenants(cs)
    /\ UNCHANGED generator

SaveSchedules ==
    /\ db_call.n < MaxDbCalls
    /\ \E ss \in SeqsUpTo(DbEntries, MaxBatch) :
          \E h \in {None, Some({}), Some({DbHoliday})} : save_schedules(ss, h)
    /\ UNCHANGED generator

UpdateScheduleStatus ==
    /\ db_call.n < MaxDbCalls
    /\ \E id \in DbScheduleIds : \E st \in DbStatuses :
          update_schedule_status(id, st)
    /\ UNCHANGED generator

DeleteSchedule ==
    /\ db_call.n < MaxDbCalls
    /\ \E id \in DbScheduleIds : delete_schedule(id)
    /\ UNCHANGED generator

InitDB == NewWith(DefaultArgs("forward"), NoProvider, DbTransaction, <<>>)
NextDB ==
    \/ SaveTransaction
    \/ SaveCovenants
    \/ SaveSchedules
    \/ UpdateScheduleStatus
    \/ DeleteSchedule
SpecDB == InitDB /\ [][NextDB]_vars

\* ------------------------------------------------------------------------
\* Properties
\* ------------------------------------------------------------------------

\* every entry appended so far in the running call
Emitted == schedules \o sub
EntriesOf(q) == {q[i] : i \in 1..Len(q)}
DueOf(e) == strptime(e.due_date)

\* Monday to Friday and not a holiday, read off the entry's date string
DueIsBusinessDay(e) == weekday(DueOf(e)) < 5 /\ e.due_date \notin holidays

\* no business day among d and the MaxAttempts days after (before) it
SearchExhausted(d) ==
    \A k \in 0..MaxAttempts :
        LET x == IF forward THEN d + k ELSE d - k
        IN  weekday(x) >= 5 \/ strftime(x) \in holidays

\* the running generator is about to search from a date with no business
\* day in reach
ExhaustedNow ==
    \/ pc = "weekly" /\ period_start < end /\ SearchExhausted(period_start + 7)
    \/ pc = "daily" /\ current < end /\ weekday(current) < 5
       /\ strftime(current) \notin holidays /\ SearchExhausted(current + 1)
    \/ pc = "periodic" /\ FebCase
       /\ SearchExhausted(ToOrdinal(Year(next_period_start), 2,
                                    monthrange(Year(next_period_start), 2)))
    \/ pc = "periodic" /\ ~FebCase /\ RawDue <= end /\ SearchExhausted(RawDue)

C2_DueAtMostAdjustedEnd ==
    (pc # "start" /\ validate_transaction_ok(transaction)) =>
        LET a == _adjust_to_business_day(end, forward)
        IN  a.raised \/ \A e \in EntriesOf(Emitted) : DueOf(e) <= a.d

\* a returned entry falls due after the end date, at its adjustment
C2_Witness ==
    /\ pc = "returned"
    /\ ~_adjust_to_business_day(end, forward).raised
    /\ \E e \in EntriesOf(schedules) :
          DueOf(e) > end /\ DueOf(e) = _adjust_to_business_day(end, forward).d

\* C3: no returned entry has a due date after the transaction end date.
C3_DueAtMostEnd ==
    pc = "returned" => \A e \in EntriesOf(schedules) : DueOf(e) <= end

\* C4: no returned entry has a due date before the transaction start date.
C4_DueAtLeastStart ==
    pc = "returned" => \A e \in EntriesOf(schedules) : DueOf(e) >= start

\* C5: a later call of generate_schedules on the same generator with the
\* same arguments ends as the call before it did: the same exception, or
\* the same ordered list of entries.
C5_Deterministic ==
    (Done /\ Len(history) >= 1) => Outcome = history[Len(history)]

\* a second call returned a list of several entries
C5_Witness ==
    /\ pc = "returned"
    /\ Len(history) >= 1
    /\ Len(schedules) >= 2
    /\ Len(covenants) >= 2

\* C6: the schedule_id values of one returned list are pairwise distinct.
C6_ScheduleIdsDistinct ==
    pc = "returned" =>
        \A i \in 1..Len(schedules) : \A j \in 1..Len(schedules) :
            i # j => schedules[i].schedule_id # schedules[j].schedule_id

\* a returned list with several entries for each of two covenants
C6_Witness ==
    /\ pc = "returned"
    /\ \E i \in 1..Len(schedules) : \E j \in 1..Len(schedules) :
          /\ schedules[i].covenant_id = "C1"
          /\ schedules[j].covenant_id = "C1-001"
          /\ schedules[i].schedule_id = "SCH-C1-002"
          /\ schedules[j].schedule_id = "SCH-C1-001-002"

\* the covenant at position i fails a check of the loop body
CovenantInvalidAt(i) ==
    \/ ~validate_covenant_ok(covenants[i])
    \/ covenants[i]["transaction_id"].v # transaction["transaction_id"].v
    \/ \E j \in 1..(i - 1) :
          /\ "covenant_id" \in DOMAIN covenants[j]
          /\ covenants[j]["covenant_id"] = covenants[i]["covenant_id"]

\* C7: whenever some covenant of the list is invalid, whatever its position
\* and whatever the other covenants, the call ends with ValueError.
C7_InvalidBatchEndsInValueError ==
    (Done /\ validate_transaction_ok(transaction)
          /\ \E i \in 1..Len(covenants) : CovenantInvalidAt(i))
        => pc = "ValueError"

\* the thresholds of the feasibility gate as the specification states them
TooShortFor(f, duration) ==
    \/ f = "annually" /\ duration < 365
    \/ f = "quarterly" /\ duration < 90
    \/ f = "monthly" /\ duration < 28

\* the loop is at a covenant that passes validation
AtAcceptedCovenant == pc = "loop" /\ ci <= Len(covenants) /\ CovenantAccepted

\* C8: a covenant too short for its frequency (annually under 365 days,
\* quarterly under 90, monthly under 28) adds no entry and raises nothing,
\* the loop going on to the next covenant; a weekly or daily covenant always
\* reaches its generator; a returned list holds no entry of a gated covenant.
C8_FeasibilityGate ==
    /\ [](pc = "returned" =>
            \A i \in 1..Len(covenants) :
                TooShortFor(Lower(covenants[i]["frequency"].v), duration_days) =>
                    \A e \in EntriesOf(schedules) :
                        e.covenant_id # covenants[i]["covenant_id"].v)
    /\ [][AtAcceptedCovenant =>
            /\ TooShortFor(freq, duration_days) =>
                  /\ pc' = "loop"
                  /\ ci' = ci + 1
                  /\ Emitted' = Emitted
            /\ freq \in {"weekly", "daily"} => pc' = freq]_vars

\* a returned list: the first covenant was gated, the second has entries
C8_Witness ==
    /\ pc = "returned"
    /\ Len(covenants) = 2
    /\ TooShortFor(Lower(covenants[1]["frequency"].v), duration_days)
    /\ Lower(covenants[2]["frequency"].v) \in {"weekly", "daily", "monthly"}
    /\ \E e \in EntriesOf(schedules) :
          e.covenant_id = covenants[2]["covenant_id"].v

\* the arguments and the configuration are those of the input inp
AtInput(inp) ==
    /\ transaction = inp.tx
    /\ covenants = inp.covs
    /\ holidays = inp.hol
    /\ business_day_adjustment = inp.adj

\* the date string s moved to the next Monday-Friday date (no holidays)
NextWeekday(s) ==
    LET d == strptime(s)
    IN  strftime(CHOOSE x \in d..(d + 2) :
                    weekday(x) < 5 /\ \A y \in d..(x - 1) : weekday(y) >= 5)

MonthlyScenario == Scenario(<<2025, 1, 15>>, <<2027, 1, 15>>, "monthly")
QuarterlyScenario == Scenario(<<2025, 3, 31>>, <<2026, 3, 31>>, "quarterly")

AnnualLeapScenario == Scenario(<<2024, 2, 29>>, <<2028, 2, 28>>, "annually")

\* the due dates of the returned list, in order
DueDates == [i \in 1..Len(schedules) |-> schedules[i].due_date]

AllDaysHolidays ==
    /\ validate_transaction_ok(transaction)
    /\ \A d \in start..end : strftime(d) \in holidays
    /\ Len(covenants) >= 1
    /\ \A i \in 1..Len(covenants) :
          /\ validate_covenant_ok(covenants[i])
          /\ Lower(covenants[i]["frequency"].v) = "daily"
          /\ covenants[i]["transaction_id"].v = transaction["transaction_id"].v

\* an upper bound on the statements a call over daily covenants has left:
\* one per day of each covenant not yet finished, two per covenant for its
\* dispatch and its return, one for the call's own return
DailyMeasure ==
    LET per == duration_days + 2
    IN  CASE pc = "start" -> Len(covenants) * per + 2
          [] pc = "loop" -> (Len(covenants) + 1 - ci) * per + 1
          [] pc = "daily" -> (Len(covenants) - ci) * per + (end - current) + 2
          [] OTHER -> 0

\* C12: when every day from the start to the end date is a holiday, a call
\* with a daily covenant never raises and never appends an entry, and it
\* terminates, whatever the length of the range: until it has returned a
\* statement can always execute, and every statement executed lowers a
\* measure that is a natural number.
C12_AllHolidaysDailyReturnsEmpty ==
    /\ [](AllDaysHolidays =>
            /\ pc \notin {"ValueError", "RuntimeError"}
            /\ Emitted = <<>>
            /\ DailyMeasure >= 0
            /\ pc # "returned" => ENABLED <<Next>>_vars)
    /\ [][AllDaysHolidays => DailyMeasure' < DailyMeasure]_vars

\* the call has returned nothing over an all-holiday range far longer than
\* the business-day search
C12_Witness ==
    /\ AllDaysHolidays
    /\ pc = "returned"
    /\ schedules = <<>>
    /\ end - start > 3 * MaxAttempts

\* C13: a generator constructed without an explicit holiday set has the
\* dates the provider returns as its holiday set, has the empty default set
\* only when the provider lookup fails, and a provider failure does not abort
\* the construction.
C13_DefaultHolidaysFromProvider ==
    (pc # "new" /\ init_args.holidays.none) =>
        /\ ~provider.raised => holidays = provider.dates
        /\ provider.raised =>
              /\ holidays = DEFAULT_HOLIDAYS
              /\ (pc = "start" =>
                    business_day_adjustment = init_args.business_day_adjustment)

\* the dates around the start and the end date, where the holiday runs lie
AdjustProbe == ((start - 3)..(start + 14)) \cup ((end - 14)..(end + 3))

\* the numbers of steps from d, at most MaxAttempts, that lead to a Monday
\* to Friday date outside the holiday set
BusinessSteps(d, step) ==
    {k \in 0..MaxAttempts :
        weekday(d + k * step) < 5 /\ strftime(d + k * step) \notin holidays}

\* C14: _adjust_to_business_day(d, direction) returns d when d is a business
\* day; otherwise it returns the nearest business day in the direction when
\* one lies at most 10 days from d, and raises when none does; it never
\* returns a date that is not a business day.
C14_AdjustToBusinessDay ==
    (Done /\ pc # "new" /\ validate_transaction_ok(transaction)) =>
        \A d \in AdjustProbe : \A fwd \in BOOLEAN :
            LET step == IF fwd THEN 1 ELSE -1
                r == _adjust_to_business_day(d, fwd)
                K == BusinessSteps(d, step)
            IN  IF K = {} THEN r.raised
                ELSE /\ ~r.raised
                     /\ \E k \in K : r.d = d + k * step /\ \A j \in K : k <= j
                     /\ (0 \in K => r.d = d)

\* under a run of holidays one date is moved to the business day exactly
\* MaxAttempts days on, the date before it has none in reach, and the call
\* made its own searches
C14_Witness ==
    /\ Done
    /\ validate_transaction_ok(transaction)
    /\ \E d \in AdjustProbe :
          /\ ~_adjust_to_business_day(d, TRUE).raised
          /\ _adjust_to_business_day(d, TRUE).d = d + MaxAttempts
          /\ _adjust_to_business_day(d - 1, TRUE).raised
    /\ \E e \in EntriesOf(schedules) : DueOf(e) - strptime(e.period_end) > 3

\* the step is a call of the Database method op
DbStep(op) == db_call'.n = db_call.n + 1 /\ db_call'.op = op

\* the batch ss has an entry save_schedules is to reject, for the holiday
\* list h and the rows stored
ScheduleBatchBad(ss, h) ==
    \E i \in 1..Len(ss) :
        \/ \E j \in 1..Len(ss) : j # i /\ ss[j].schedule_id = ss[i].schedule_id
        \/ \E k \in 1..Len(db_schedules) :
              db_schedules[k].schedule_id = ss[i].schedule_id
        \/ \A k \in 1..Len(db_covenants) :
              db_covenants[k].covenant_id # ss[i].covenant_id
        \/ ss[i].status \notin {"pending", "completed", "overdue", "cancelled"}
        \/ /\ "due_date" \in DOMAIN ss[i]
           /\ \/ ~h.none /\ ss[i].due_date \in h.v
              \/ (strptime(ss[i].due_date) + 6) % 7 \in {5, 6}

\* C15: save_schedules raises when an entry of the batch repeats a
\* schedule_id of the batch or of the store, names a covenant that is not
\* stored, has a status outside pending, completed, overdue, cancelled, or
\* falls due on a date of the holiday list or on a Saturday or Sunday; when
\* it raises, the store is as before the call.
C15_SaveSchedulesRejects ==
    [][DbStep("save_schedules") =>
          /\ ScheduleBatchBad(db_call'.a, db_call'.b) => db_raised' # "none"
          /\ db_raised' # "none" => store' = store]_vars

\* a batch was rejected for its second entry: its first entry, which the
\* store would take, is not stored, and the rows of an earlier batch remain
C15_Witness ==
    /\ db_call.op = "save_schedules"
    /\ db_raised = "ValueError"
    /\ Len(db_call.a) = 2
    /\ db_call.a[1] = Entry("COV-002", 1, D(2025, 4, 1))
    /\ "COV-002" \in Column(db_covenants, "covenant_id")
    /\ Column(db_schedules, "schedule_id") = {"SCH-COV-001-001"}

\* the batch cs has a covenant save_covenants is to reject
CovenantBatchBad(cs) ==
    \E i \in 1..Len(cs) :
        \/ \A k \in 1..Len(db_transactions) :
              db_transactions[k].transaction_id # cs[i]["transaction_id"].v
        \/ \E k \in 1..Len(db_covenants) :
              db_covenants[k].covenant_id = cs[i]["covenant_id"].v
        \/ \E j \in 1..Len(cs) :
              j # i /\ cs[j]["covenant_id"].v = cs[i]["covenant_id"].v

\* C16: save_covenants raises when a covenant of the batch names a
\* transaction that is not stored or has a covenant_id that is stored or
\* occurs twice in the batch, and then stores nothing; after any sequence
\* of calls every stored covenant names a stored transaction and every
\* stored schedule names a stored covenant.
C16_ReferentialIntegrity ==
    /\ [](/\ \A i \in 1..Len(db_covenants) :
                \E k \in 1..Len(db_transactions) :
                   db_transactions[k].transaction_id = db_covenants[i].transaction_id
          /\ \A i \in 1..Len(db_schedules) :
                \E k \in 1..Len(db_covenants) :
                   db_covenants[k].covenant_id = db_schedules[i].covenant_id)
    /\ [][DbStep("save_covenants") =>
            /\ CovenantBatchBad(db_call'.a) => db_raised' # "none"
            /\ db_raised' # "none" => store' = store]_vars

\* a batch of one covenant twice was rejected though its transaction is
\* stored, and schedules of an earlier covenant are stored
C16_Witness ==
    /\ db_call.op = "save_covenants"
    /\ db_raised = "IntegrityError"
    /\ Len(db_call.a) = 2
    /\ db_call.a[1]["covenant_id"].v \notin Column(db_covenants, "covenant_id")
    /\ db_call.a[1]["transaction_id"].v \in Column(db_transactions, "transaction_id")
    /\ db_schedules # <<>>

\* C17: when generate_schedules returned a list, and save_transaction and
\* save_covenants have stored its arguments in an empty store, then
\* save_schedules(list, holidays = the generator's holiday set) raises
\* nothing and get_schedules() returns as many entries as were generated,
\* the generated ones in order, each with status pending.
C17_GeneratedListIsStorable ==
    [][(/\ pc = "returned"
        /\ db_transactions = <<TransactionRow(transaction)>>
        /\ db_covenants = [i \in 1..Len(covenants) |-> CovenantRow(covenants[i])]
        /\ db_schedules = <<>>
        /\ DbStep("save_schedules")
        /\ db_call'.a = schedules
        /\ db_call'.b = Some(holidays))
       => LET got == get_schedules(db_schedules', None)
          IN  /\ db_raised' = "none"
              /\ Len(got) = Len(schedules)
              /\ \A i \in 1..Len(got) :
                    /\ got[i].status = "pending"
                    /\ got[i].schedule_id = schedules[i].schedule_id
                    /\ got[i].due_date = schedules[i].due_date]_vars

\* the entries of two covenants, generated under holidays, are stored
C17_Witness ==
    /\ pc = "returned"
    /\ db_call.op = "save_schedules"
    /\ db_call.b = Some(holidays)
    /\ db_raised = "none"
    /\ holidays # {}
    /\ Len(covenants) = 2
    /\ Len(db_covenants) = 2
    /\ Len(schedules) > 2
    /\ Len(db_schedules) = Len(schedules)
    /\ \E i \in 1..Len(db_schedules) :
          db_schedules[i].covenant_id # db_schedules[1].covenant_id

\* the rows of a table but those of schedule_id id
OtherRows(table, id) == {table[i] : i \in {k \in 1..Len(table) : table[k].schedule_id # id}}

\* C18: update_schedule_status(id, s) leaves the schedule id with status s
\* and every other row as it was; delete_schedule(id) leaves no row with
\* that id and every other row as it was; on an id that is not stored both
\* leave the store unchanged; neither raises.
C18_UpdateAndDelete ==
    [][/\ DbStep("update_schedule_status") =>
            LET id == db_call'.a
                got == get_schedules(db_schedules', None)
            IN  /\ db_raised' = "none"
                /\ Len(got) = Len(db_schedules)
                /\ \A i \in 1..Len(got) :
                      IF db_schedules[i].schedule_id = id
                      THEN /\ got[i].status = db_call'.b
                           /\ got[i] = [db_schedules[i] EXCEPT
                                          !.status = got[i].status,
                                          !.updated_at = got[i].updated_at]
                      ELSE got[i] = db_schedules[i]
                /\ id \notin Column(db_schedules, "schedule_id") => store' = store
                /\ <<db_transactions, db_covenants>>' = <<db_transactions, db_covenants>>
       /\ DbStep("delete_schedule") =>
            LET id == db_call'.a
                got == get_schedules(db_schedules', None)
            IN  /\ db_raised' = "none"
                /\ id \notin Column(got, "schedule_id")
                /\ OtherRows(got, id) = OtherRows(db_schedules, id)
                /\ Len(got) = Cardinality(OtherRows(db_schedules, id))
                /\ id \notin Column(db_schedules, "schedule_id") => store' = store
                /\ <<db_transactions, db_covenants>>' = <<db_transactions, db_covenants>>]_vars

\* one of two stored schedules was given a new status, the other is as
\* it was stored
C18_Witness ==
    /\ db_call.op = "update_schedule_status"
    /\ Len(db_schedules) = 2
    /\ \E i \in 1..2 : \E j \in 1..2 :
          /\ db_schedules[i].schedule_id = db_call.a
          /\ db_schedules[i].status = db_call.b
          /\ db_schedules[i].updated_at = "UPDATE"
          /\ db_schedules[j].status = "pending"
          /\ db_schedules[j].updated_at = "INSERT"

\* months from the start month to the month of the date n
MonthsFromStart(n) ==
    (Year(n) * 12 + Month(n)) - (Year(start) * 12 + Month(start))

\* the day-of-month policy applied to the month j months after the start
\* month, from the start date alone
PolicyTarget(j) ==
    LET z  == Year(start) * 12 + (Month(start) - 1) + j
        y2 == z \div 12
        m2 == (z % 12) + 1
        mr == monthrange(y2, m2)
    IN  IF Day(start) = monthrange(Year(start), Month(start))
        THEN ToOrdinal(y2, m2, mr)
        ELSE IF Day(start) <= mr THEN ToOrdinal(y2, m2, Day(start))
                                 ELSE ToOrdinal(y2, m2, mr)

\* C19: in the periodic generator the first iteration starts at the
\* transaction start and each further iteration starts `months` calendar
\* months later, so that iteration k starts months*(k-1) months after the
\* start month; the due date it computes before the business-day adjustment
\* lies months*k months after the start month and is that month's last day
\* when the start date is the last day of its month, else the start date's
\* day-of-month when the target month has it, else the target month's last
\* day. Start 2025-01-31 monthly gives Feb 28 then Mar 31; start 2023-02-28
\* annually gives 2024-02-29.
C19_DayOfMonthPolicy ==
    /\ [](pc = "periodic" =>
            /\ MonthsFromStart(period_start) >= 0
            /\ MonthsFromStart(period_start) % months = 0
            /\ RawDue = PolicyTarget(MonthsFromStart(period_start) + months)
            /\ MonthsFromStart(RawDue) = MonthsFromStart(period_start) + months
            /\ (strftime(start) = <<2025, 1, 31>> /\ months = 1
                    /\ MonthsFromStart(period_start) = 0)
                  => strftime(RawDue) = <<2025, 2, 28>>
            /\ (strftime(start) = <<2025, 1, 31>> /\ months = 1
                    /\ MonthsFromStart(period_start) = 1)
                  => strftime(RawDue) = <<2025, 3, 31>>
            /\ (strftime(start) = <<2023, 2, 28>> /\ months = 12
                    /\ MonthsFromStart(period_start) = 0)
                  => strftime(RawDue) = <<2024, 2, 29>>)
    /\ [][/\ (pc # "periodic" /\ pc' = "periodic") => period_start' = start'
          /\ (pc = "periodic" /\ pc' = "periodic") =>
                MonthsFromStart(period_start)' = MonthsFromStart(period_start) + months
         ]_vars

\* the second iteration of the monthly covenant that starts on 2025-01-31:
\* the first entry was due on the clamped Feb 28, the next is computed as Mar 31
C19_Witness ==
    /\ pc = "periodic"
    /\ months = 1
    /\ strftime(start) = <<2025, 1, 31>>
    /\ strftime(period_start) = <<2025, 2, 28>>
    /\ Len(sub) = 1
    /\ sub[1].due_date = <<2025, 2, 28>>
    /\ strftime(RawDue) = <<2025, 3, 31>>

\* C20: in the periodic generator the cutoff `due_date > end` comes before
\* anything is emitted in an iteration: an iteration whose computed due date
\* equals the transaction end date appends its entry (unless the business-day
\* search raises), and the iteration whose computed due date is later than
\* the end date appends no entry at all, regular or extra, nor does any
\* later step of that generator call.
C20_CutoffBeforeEmitting ==
    [][/\ (pc = "periodic" /\ RawDue = end) =>
             \/ pc' = "RuntimeError"
             \/ /\ pc' = "periodic"
                /\ Len(Emitted') > Len(Emitted)
       /\ (pc = "periodic" /\ RawDue > end) =>
             \/ pc' = "RuntimeError"
             \/ /\ pc' # "periodic"
                /\ Emitted' = Emitted
      ]_vars

\* the date string of the ordinal n
Iso(n) == strftime(n)

\* the February 28/29 of the year the iteration's next period starts in,
\* business-day adjusted
AdjustedFebruary ==
    LET y == Year(AddMonths(period_start, 3))
    IN  AdjustIfNeeded(ToOrdinal(y, 2, monthrange(y, 2)))

\* the iteration at hand is one the quarterly extra entry is due in
ExtraEntryDue ==
    /\ freq = "quarterly"
    /\ Day(start) = monthrange(Year(start), Month(start))
    /\ Month(AddMonths(period_start, 3)) = 3
    /\ ~AdjustedFebruary.raised
    /\ AdjustedFebruary.d <= end

\* e is the regular entry of the iteration at hand
RegularEntry(e) ==
    /\ e.period_start = Iso(period_start)
    /\ e.period_end = Iso(AddMonths(period_start, months) - 1)

\* e is the extra entry of the iteration at hand
ExtraEntry(e) ==
    /\ e.due_date = Iso(AdjustedFebruary.d)
    /\ e.period_start = Iso(period_start)
    /\ e.period_end = e.due_date

\* C21: an iteration of the periodic generator for a quarterly covenant with
\* a month-end start, whose next period starts in March and whose adjusted
\* February date is not after the transaction end, appends exactly two
\* entries, the extra entry (due on the adjusted Feb 28/29, period from the
\* iteration's period_start to that due date) and right after it the
\* iteration's regular entry; every other iteration of the periodic generator
\* (quarterly without month-end start, other months, monthly, annually)
\* appends at most its regular entry.
C21_QuarterlyExtraEntry ==
    [][pc = "periodic" =>
         \/ pc' = "RuntimeError"
         \/ /\ ExtraEntryDue
            /\ Len(Emitted') = Len(Emitted) + 2
            /\ SubSeq(Emitted', 1, Len(Emitted)) = Emitted
            /\ ExtraEntry(Emitted'[Len(Emitted) + 1])
            /\ RegularEntry(Emitted'[Len(Emitted) + 2])
         \/ /\ ~ExtraEntryDue
            /\ \/ Emitted' = Emitted
               \/ /\ Len(Emitted') = Len(Emitted) + 1
                  /\ SubSeq(Emitted', 1, Len(Emitted)) = Emitted
                  /\ RegularEntry(Emitted'[Len(Emitted) + 1])
      ]_vars

\* the weekly due date of the k-th period: start + 7k days, adjusted
WeeklyDueOf(k) == AdjustIfNeeded(start + 7 * k)

\* the entries of the running weekly generator: the k-th covers
\* start + 7(k-1) .. start + 7(k-1) + 6, is due on the adjustment of
\* start + 7k, not after the end, and begins the day after entry k-1 ends
WeeklyEntries ==
    /\ period_start = start + 7 * Len(sub)
    /\ idx = Len(sub) + 1
    /\ \A k \in 1..Len(sub) :
          /\ sub[k].period_start = Iso(start + 7 * (k - 1))
          /\ sub[k].period_end = Iso(start + 7 * (k - 1) + 6)
          /\ ~WeeklyDueOf(k).raised
          /\ sub[k].due_date = Iso(WeeklyDueOf(k).d)
          /\ WeeklyDueOf(k).d <= end
          /\ k > 1 => strptime(sub[k].period_start)
                         = strptime(sub[k - 1].period_end) + 1

WeeklyGuardScenario ==
    Input(make_transaction(<<2025, 1, 7>>, <<2025, 1, 14>>),
          Range(D(2025, 1, 15), D(2025, 1, 21)), "backward",
          <<make_covenant("weekly", "COV-TEST")>>)

DailyDueOf(c) == _adjust_to_business_day(c + 1, forward)

\* the business days c with start <= c < x whose adjusted next-day due date
\* is not after the transaction end
QualifyingDays(x) ==
    {c \in start..(x - 1) :
        /\ weekday(c) < 5
        /\ strftime(c) \notin holidays
        /\ ~DailyDueOf(c).raised
        /\ DailyDueOf(c).d <= end}

\* C23: the entries of the daily generator are, in increasing order of the
\* day, exactly the business days c with start <= c < end whose adjusted
\* next-day due date is not after the transaction end; the entry of c has
\* period_start = period_end = c and is due on the adjustment of c + 1; when
\* the generator returns, at the end of the range or at the first due date
\* after the end, no day of the range that qualifies is missing.
C23_DailyEntries ==
    /\ [](pc = "daily" =>
            /\ Len(sub) = Cardinality(QualifyingDays(current))
            /\ \A k \in 1..Len(sub) :
                  /\ strptime(sub[k].period_start) \in QualifyingDays(current)
                  /\ sub[k].period_end = sub[k].period_start
                  /\ sub[k].due_date =
                        Iso(DailyDueOf(strptime(sub[k].period_start)).d)
                  /\ k > 1 => strptime(sub[k].period_start)
                                 > strptime(sub[k - 1].period_start))
    /\ [][(pc = "daily" /\ pc' = "loop") =>
             /\ schedules' = schedules \o sub
             /\ Len(sub) = Cardinality(QualifyingDays(end))
         ]_vars

\* the daily covenant over Friday 2025-01-31 .. Saturday 2025-02-08 without
\* holidays has returned: the weekend was skipped, and Friday 7 February,
\* due on Monday 10, ended the loop
C23_Witness ==
    /\ pc = "returned"
    /\ Iso(start) = <<2025, 1, 31>>
    /\ Iso(end) = <<2025, 2, 8>>
    /\ holidays = {}
    /\ forward
    /\ Len(covenants) = 1
    /\ Lower(covenants[1]["frequency"].v) = "daily"
    /\ Len(schedules) = 5
    /\ schedules[1].period_start = <<2025, 1, 31>>
    /\ schedules[2].period_start = <<2025, 2, 3>>
    /\ schedules[5].period_start = <<2025, 2, 6>>
    /\ DailyDueOf(D(2025, 2, 7)).d > end

\* the position of entry i of the list q among the entries of its covenant
SequenceIndex(q, i) ==
    Cardinality({j \in 1..i : q[j].covenant_id = q[i].covenant_id})

\* the covenant ids of the covenants generated so far in the running call
GeneratedIds == {covenants[j]["covenant_id"].v : j \in 1..(ci - 1)}

\* C24: in one generate_schedules call the entries emitted for a covenant
\* carry, in emission order, the identifiers SCH-<covenant_id>-001,
\* SCH-<covenant_id>-002, ...: the index starts at 1 and grows by one per
\* emitted entry, the quarterly extra entry included and the skipped days of a
\* daily covenant not counted; every entry has status pending and the
\* covenant_id of its covenant.
C24_SequenceNumbering ==
    (pc \in {"loop", "weekly", "daily", "periodic", "returned"}) =>
        /\ \A i \in 1..Len(Emitted) :
              LET e == Emitted[i]
                  n == SequenceIndex(Emitted, i)
              IN  /\ e.status = "pending"
                  /\ e.covenant_id \in
                        GeneratedIds \cup
                            (IF i > Len(schedules)
                             THEN {cov["covenant_id"].v} ELSE {})
                  /\ e.schedule_id = "SCH-" \o e.covenant_id \o "-" \o Format03d(n)
                  /\ n = 1 => e.schedule_id = "SCH-" \o e.covenant_id \o "-001"
                  /\ n = 2 => e.schedule_id = "SCH-" \o e.covenant_id \o "-002"
                  /\ n = 10 => e.schedule_id = "SCH-" \o e.covenant_id \o "-010"
                  /\ n = 24 => e.schedule_id = "SCH-" \o e.covenant_id \o "-024"
        /\ \A i \in 1..Len(sub) :
              /\ sub[i].covenant_id = cov["covenant_id"].v
              /\ SequenceIndex(Emitted, Len(schedules) + i) = i
        /\ pc \in {"weekly", "daily", "periodic"} => idx = Len(sub) + 1

\* the quarterly scenario has returned: the extra February entry is the
\* fourth entry and the regular entry after it the fifth
C24_Witness ==
    /\ AtInput(QuarterlyScenario)
    /\ pc = "returned"
    /\ schedules[4].period_end = schedules[4].due_date
    /\ schedules[4].schedule_id = "SCH-COV-TEST-004"
    /\ schedules[5].schedule_id = "SCH-COV-TEST-005"
    /\ schedules[5].due_date = <<2026, 3, 31>>

\* the covenant of the call with the id cid has the frequency f
HasFrequency(cid, f) ==
    \E j \in 1..Len(covenants) :
        /\ covenants[j]["covenant_id"] = Str(cid)
        /\ covenants[j]["frequency"].t = "str"
        /\ Lower(covenants[j]["frequency"].v) = f

\* the entries emitted so far for the covenant of entry e, in order
EntriesOfCovenant(cid) ==
    SelectSeq(Emitted, LAMBDA e : e.covenant_id = cid)

\* all due dates of the weekly covenants fall on the weekday of the first
SameWeekday ==
    \A e \in EntriesOf(Emitted) :
        HasFrequency(e.covenant_id, "weekly") =>
            weekday(DueOf(e)) = weekday(DueOf(EntriesOfCovenant(e.covenant_id)[1]))

\* C25 as stated: every due date emitted for a weekly covenant falls on the
\* same day of the week as the first due date emitted for that covenant,
\* whatever the holiday set and the start date.
C25_WeeklySameWeekdayAnyHolidays == SameWeekday

\* C25, amended: with an empty holiday set, every due date emitted for a
\* weekly covenant falls on the same day of the week as the first due date
\* emitted for that covenant, whatever the start date and the direction (a
\* start on a Saturday or Sunday moves every due date to the same Monday or
\* Friday).
C25_WeeklySameWeekday == holidays = {} => SameWeekday

\* a weekly covenant that starts on Saturday 2025-02-01, without holidays,
\* forward: three entries, each moved from its Saturday to the Monday after
C25_Witness ==
    /\ pc = "returned"
    /\ holidays = {}
    /\ forward
    /\ Iso(start) = <<2025, 2, 1>>
    /\ Len(covenants) = 1
    /\ HasFrequency(covenants[1]["covenant_id"].v, "weekly")
    /\ Len(schedules) = 3
    /\ schedules[1].due_date = <<2025, 2, 10>>
    /\ schedules[3].due_date = <<2025, 2, 24>>

\* the transaction and every covenant of the call pass the validation, the
\* referential check and the uniqueness check
ValidCall ==
    /\ validate_transaction_ok(transaction)
    /\ \A j \in 1..Len(covenants) :
          /\ validate_covenant_ok(covenants[j])
          /\ covenants[j]["transaction_id"].v = transaction["transaction_id"].v
          /\ \A i \in 1..(j - 1) :
                covenants[i]["covenant_id"].v # covenants[j]["covenant_id"].v

\* an upper bound on the iterations one generator makes over the transaction
Slot == IF end >= start THEN end - start + 10 ELSE 10

\* iterations the running generator can still make, plus one
IterationsLeft ==
    CASE pc = "daily" -> end - current + 1
      [] pc = "weekly" -> (IF period_start < end THEN end - period_start ELSE 0) + 1
      [] pc = "periodic" ->
            (IF MonthsFromStart(end) > MonthsFromStart(period_start)
             THEN MonthsFromStart(end) - MonthsFromStart(period_start) ELSE 0) + 1
      [] OTHER -> 0

\* the steps generate_schedules can still take: covenants not yet visited,
\* each worth a whole slot, and the iterations left to the running generator
StepsLeft ==
    CASE pc = "new" -> (Len(covenants) + 1) * Slot + 2
      [] pc = "start" -> (Len(covenants) + 1) * Slot + 1
      [] pc = "loop" -> (Len(covenants) + 1 - ci) * Slot + 1
      [] pc \in {"daily", "weekly", "periodic"} ->
            (Len(covenants) - ci) * Slot + 1 + IterationsLeft
      [] OTHER -> 0

\* the branch an iteration of the periodic `while True` loop takes: the
\* February search raises; else the loop breaks; else the search of the due
\* date raises; else the entry is appended
PeriodicBranch ==
    IF FebCase /\ FebDue.raised THEN "raise"
    ELSE IF RawDue > end THEN "break"
    ELSE IF PeriodicDue.raised THEN "raise"
    ELSE "append"

\* C26: generate_schedules terminates. Every step of a call (a step of the
\* covenant loop, an iteration of the daily, weekly or periodic loop) strictly
\* decreases a natural number, so no call takes infinitely many steps; the
\* business-day search is part of a step and ends after at most
\* MaxAttempts + 1 dates. As long as the call has not ended a step can be
\* taken: an iteration of the periodic `while True` loop takes the branch its
\* conditions select, and has to break or raise once the month of the
\* transaction end is reached. A call with a valid transaction and valid
\* covenants ends by returning the list or with the RuntimeError of the
\* search, never with ValueError.
C26_Terminates ==
    /\ [](/\ StepsLeft >= 0
          /\ (~Done /\ pc # "periodic") => ENABLED <<Next>>_vars
          /\ (pc = "periodic" /\ IterationsLeft = 1) => PeriodicBranch # "append"
          /\ (Done /\ ValidCall) => pc \in {"returned", "RuntimeError"}
          /\ pc \in {"daily", "weekly", "periodic"} => IterationsLeft < Slot)
    /\ [][/\ StepsLeft' < StepsLeft
          /\ pc = "periodic" =>
                pc' = CASE PeriodicBranch = "raise" -> "RuntimeError"
                        [] PeriodicBranch = "break" -> "loop"
                        [] PeriodicBranch = "append" -> "periodic"
         ]_vars

\* the monthly scenario right after the `while True` loop ended: 24 entries
\* were appended in 24 iterations and the 25th broke out of the loop
C26_Witness ==
    /\ AtInput(MonthlyScenario)
    /\ pc = "loop"
    /\ ci = 2
    /\ Len(schedules) = 24
    /\ StepsLeft = 1

\* C27: after any sequence of save_schedules, update_schedule_status and
\* delete_schedule calls every schedule in the store has a status among
\* pending, completed, overdue and cancelled.
C27_StoredStatusAllowed ==
    \A i \in 1..Len(db_schedules) :
        db_schedules[i].status \in {"pending", "completed", "overdue", "cancelled"}

\* the first iteration of _generate_periodic_schedules(transaction, covenant,
\* m) on the transaction at hand: whether it raises, appends the extra
\* February entry, appends the regular entry
FirstIteration(m) ==
    LET nps     == AddMonths(start, m)
        febCase == /\ m = 3
                   /\ Day(start) = monthrange(Year(start), Month(start))
                   /\ Month(nps) = 3
        feb     == AdjustIfNeeded(ToOrdinal(Year(nps), 2, monthrange(Year(nps), 2)))
        raw     == PolicyTarget(m)
    IN  [raised  |-> \/ febCase /\ feb.raised
                     \/ raw <= end /\ AdjustIfNeeded(raw).raised,
         extra   |-> febCase /\ ~feb.raised /\ feb.d <= end,
         regular |-> raw <= end]

\* the periodic generator, run on the transaction at hand for the frequency
\* f, returns at least one entry
WouldEmit(f) ==
    /\ ~FirstIteration(MonthsOf(f)).raised
    /\ \/ FirstIteration(MonthsOf(f)).extra
       \/ FirstIteration(MonthsOf(f)).regular

\* C28: the feasibility gate is conservative: when generate_schedules skips a
\* monthly, quarterly or annually covenant because the transaction is shorter
\* than 28, 90 or 365 days, the periodic generator run on that transaction
\* and covenant would have returned no entry, the extra February entry of a
\* quarterly covenant included.
C28_GateIsConservative ==
    (AtAcceptedCovenant /\ TooShortFor(freq, duration_days)) => ~WouldEmit(freq)

\* the due dates of the entries of each covenant, in emission order, compared
\* pairwise by Ordered(earlier, later)
DueDatesInOrder(Ordered(_, _)) ==
    \A i, j \in 1..Len(Emitted) :
        (i < j /\ Emitted[i].covenant_id = Emitted[j].covenant_id) =>
            Ordered(DueOf(Emitted[i]), DueOf(Emitted[j]))

StrictlyBefore(a, b) == a < b
NotAfter(a, b) == a <= b

\* C29 as stated: within the entries emitted for one covenant the due dates
\* are strictly increasing in sequence-index order, for every frequency,
\* holiday set and adjustment direction.
C29_DueDatesStrictlyIncreasing == DueDatesInOrder(StrictlyBefore)

\* the covenant with the id cid is monthly, quarterly or annually
IsPeriodic(cid) ==
    \/ HasFrequency(cid, "monthly")
    \/ HasFrequency(cid, "quarterly")
    \/ HasFrequency(cid, "annually")

\* C29, amended: within the entries emitted for one covenant no entry is due
\* before an earlier entry, for every frequency, holiday set and adjustment
\* direction, and the due dates of a monthly, quarterly or annually covenant
\* are strictly increasing; two entries of a daily or weekly covenant can be
\* due on the same day.
C29_DueDatesIncreasing ==
    /\ DueDatesInOrder(NotAfter)
    /\ \A i, j \in 1..Len(Emitted) :
          (/\ i < j
           /\ Emitted[i].covenant_id = Emitted[j].covenant_id
           /\ IsPeriodic(Emitted[i].covenant_id))
             => DueOf(Emitted[i]) < DueOf(Emitted[j])

\* a daily covenant from Tuesday 2025-01-07 with backward adjustment has
\* returned: the entry of Thursday 9 is due on Friday 10, and so is the entry
\* of Friday 10, its Saturday moved back
C29_Witness ==
    /\ pc = "returned"
    /\ ~forward
    /\ holidays = {}
    /\ Len(schedules) >= 4
    /\ HasFrequency(schedules[1].covenant_id, "daily")
    /\ schedules[3].period_start = <<2025, 1, 9>>
    /\ schedules[3].due_date = <<2025, 1, 10>>
    /\ schedules[4].period_start = <<2025, 1, 10>>
    /\ schedules[4].due_date = <<2025, 1, 10>>

\* C30: every entry of a weekly or daily covenant is due strictly after its
\* period_end, under either adjustment direction and any holiday set.
C30_DueAfterPeriodEnd ==
    \A e \in EntriesOf(Emitted) :
        (HasFrequency(e.covenant_id, "weekly") \/ HasFrequency(e.covenant_id, "daily"))
            => DueOf(e) > strptime(e.period_end)

====
